---- MODULE Spec2Model ----
(***************************************************************************)
(* A model of trimesh/sample.py (surface, volume and sphere samplers) and  *)
(* of the focal/fov cache of trimesh/scene/cameras.py (class Camera).      *)
(*                                                                         *)
(* Numbers.  A uniform draw of np.random.random is k/Grid, k in 0..Grid-1, *)
(* and is stored as its numerator k.  A point returned by a surface or a   *)
(* mesh-volume sampler is stored as Grid times its coordinates, a point of *)
(* volume_rectangular as 2*Grid times its coordinates, so that every value *)
(* is an exact integer.  Face indices are 0-based as in the source.        *)
(***************************************************************************)
EXTENDS Integers, Sequences, FiniteSets, TLC

\* ---------------------------------------------------------------- bounds
\* Draws are multiples of 1/Grid.
Grid == 3
\* Largest requested count.
MaxCount == 2
\* Number of faces of the non-empty meshes.
MaxFaces == 3
\* Largest entry of a caller-supplied face_weight vector (the smallest is -1).
MaxWeight == 1

\* ------------------------------------------------- constants of the source
\* np.random.random((len(tri_vectors), 2, 1)): two lengths per point.
LengthDraws == 2
\* np.random.random((count, 3)): one draw per axis.
AxisDraws == 3
\* sample_surface(mesh, count * 3): oversampling of a triangle mesh.
OversampleTri == 3
\* sample_surface_core(triangles_0, areas_0, count * 2): per half of a quad.
OversampleQuad == 2

VARIABLES
    mesh,      \* the caller's mesh: faces.shape[1], triangles, area_faces, extents, bounds
    box,       \* the caller's arrays for volume_rectangular: extents, a transform
    rng,       \* the random-number source: the draws it produces next, cyclically
    phase,     \* "idle", or "returned" while the caller holds a call's outcome
    ret,       \* the outcome of the last call (its locals included), or NoCall
    inputs0,   \* the values mesh and box had after construction
    cam,       \* a Camera
    cpy,       \* cam.copy(), once taken (a sequence of zero or one camera)
    explicit   \* which of focal/fov was assigned last on cam, and the value

vars == <<mesh, box, rng, phase, ret, inputs0, cam, cpy, explicit>>
samplerVars == <<mesh, box, rng, phase, ret, inputs0>>
cameraVars == <<cam, cpy, explicit>>

\* ------------------------------------------------------------ arithmetic
Abs(x) == IF x < 0 THEN -x ELSE x
Min(a, b) == IF a < b THEN a ELSE b
Max(a, b) == IF a < b THEN b ELSE a

VAdd(u, v) == [k \in 1..3 |-> u[k] + v[k]]
VSub(u, v) == [k \in 1..3 |-> u[k] - v[k]]
VScale(c, v) == [k \in 1..3 |-> c * v[k]]
Zero3 == <<0, 0, 0>>

RECURSIVE SumTo(_, _)
SumTo(w, i) == IF i = 0 THEN 0 ELSE SumTo(w, i - 1) + w[i]

\* np.cumsum(face_weight)
CumSum(w) == [i \in 1..Len(w) |-> SumTo(w, i)]

\* An optional argument: None, or a value.
None == <<>>
Some(x) == <<x>>
IsNone(o) == Len(o) = 0
Val(o) == o[1]

\* --------------------------------------------------------- the draw stream
\* The source is a stream of draws that repeats after two draws: every pick p,
\* every pair of lengths (a, b) and every pair (p, a) is produced by some stream,
\* and a call that takes m draws leaves the stream m draws further.
\* The j-th draw (j = 0, 1, ...) the source produces from its present position.
Draw(tape, j) == tape[(j % Len(tape)) + 1]
\* The source after m draws were taken.
Advance(tape, m) == [i \in 1..Len(tape) |-> tape[((i - 1 + m) % Len(tape)) + 1]]
Tapes == [1..2 -> 0..(Grid - 1)]

\* ------------------------------------------------------------ the meshes
\* Face i of a triangle mesh: a right triangle with legs i in the plane z = i-1,
\* its right angle at (i, -1, i-1).
Tri(i) == << <<i, -1, i - 1>>, <<2 * i, -1, i - 1>>, <<i, i - 1, i - 1>> >>
\* Face i of a quad mesh: the square on the same legs.
Quad(i) == << <<i, -1, i - 1>>, <<2 * i, -1, i - 1>>,
              <<2 * i, i - 1, i - 1>>, <<i, i - 1, i - 1>> >>

Cross(u, v) == << u[2] * v[3] - u[3] * v[2],
                  u[3] * v[1] - u[1] * v[3],
                  u[1] * v[2] - u[2] * v[1] >>
Norm2(v) == v[1] * v[1] + v[2] * v[2] + v[3] * v[3]
ISqrt(x) == CHOOSE r \in 0..x : r * r <= x /\ (r + 1) * (r + 1) > x

\* triangles.area(triangles, sum=False), in units of 1/2: the norm of the cross
\* product of the two edge vectors.
TrianglesArea(tris) ==
    [i \in 1..Len(tris) |->
        ISqrt(Norm2(Cross(VSub(tris[i][2], tris[i][1]), VSub(tris[i][3], tris[i][1]))))]

\* mesh.triangles[:, cols, :]: a new array holding the chosen vertices of each face.
TakeVertices(tris, cols) == [i \in 1..Len(tris) |-> [j \in 1..Len(cols) |-> tris[i][cols[j]]]]

RECURSIVE SeqMin(_, _, _)
SeqMin(faces, k, i) ==
    IF i = 0 THEN faces[1][1][k]
    ELSE LET rest == SeqMin(faces, k, i - 1)
             here == CHOOSE m \in {faces[i][j][k] : j \in 1..Len(faces[i])} :
                         \A j \in 1..Len(faces[i]) : m <= faces[i][j][k]
         IN Min(rest, here)
RECURSIVE SeqMax(_, _, _)
SeqMax(faces, k, i) ==
    IF i = 0 THEN faces[1][1][k]
    ELSE LET rest == SeqMax(faces, k, i - 1)
             here == CHOOSE m \in {faces[i][j][k] : j \in 1..Len(faces[i])} :
                         \A j \in 1..Len(faces[i]) : m >= faces[i][j][k]
         IN Max(rest, here)

\* mesh.bounds: the corners of the axis-aligned bounding box; mesh.extents: its sides.
BoundsOf(faces) ==
    << [k \in 1..3 |-> SeqMin(faces, k, Len(faces))],
       [k \in 1..3 |-> SeqMax(faces, k, Len(faces))] >>

MeshOf(shape1, faces) ==
    [ shape1     |-> shape1,
      triangles  |-> faces,
      area_faces |-> IF shape1 = 3
                     THEN TrianglesArea(faces)
                     ELSE [i \in 1..Len(faces) |->
                             TrianglesArea(TakeVertices(faces, <<1, 2, 3>>))[i]
                             + TrianglesArea(TakeVertices(faces, <<1, 3, 4>>))[i]],
      bounds     |-> IF Len(faces) = 0 THEN <<Zero3, Zero3>> ELSE BoundsOf(faces),
      extents    |-> IF Len(faces) = 0 THEN Zero3
                     ELSE VSub(BoundsOf(faces)[2], BoundsOf(faces)[1]) ]

TriMesh(n) == MeshOf(3, [i \in 1..n |-> Tri(i)])
QuadMesh(n) == MeshOf(4, [i \in 1..n |-> Quad(i)])
Meshes == {TriMesh(0), TriMesh(MaxFaces), QuadMesh(0), QuadMesh(MaxFaces)}

\* -------------------------------------------------- sample_surface_core
\* np.searchsorted(weight_cum, p) with side='left', p = num/Grid: the binary
\* search numpy runs, lo and hi 0-based.
RECURSIVE BinSearch(_, _, _, _)
BinSearch(a, num, lo, hi) ==
    IF lo >= hi THEN lo
    ELSE LET mid == lo + ((hi - lo) \div 2)
         IN IF a[mid + 1] * Grid < num
            THEN BinSearch(a, num, mid + 1, hi)
            ELSE BinSearch(a, num, lo, mid)

SearchSorted(a, num) == BinSearch(a, num, 0, Len(a))

\* An array handle: the buffer it reads and writes, and the column of that buffer
\* its first column is.
\* mesh_triangles[:, 1:] without the copy: a view of the caller's buffer.
TriVectorsView == [buf |-> "mesh_triangles", col |-> 1]
\* tri_vectors = mesh_triangles[:, 1:].copy(): a buffer of its own.
TriVectorsHandle == [buf |-> "tri_vectors", col |-> 0]

ReadHandle(heap, h) ==
    [i \in 1..Len(heap[h.buf]) |-> [j \in 1..2 |-> heap[h.buf][i][j + h.col]]]

\* tri_vectors -= tile: the subtraction in place, through the handle.
SubInPlace(heap, h, tile) ==
    [heap EXCEPT ![h.buf] =
        [i \in 1..Len(@) |->
            [j \in 1..Len(@[i]) |->
                IF j > h.col /\ j <= h.col + 2
                THEN VSub(@[i][j], tile[i][j - h.col])
                ELSE @[i][j]]]]

\* The fold without np.abs.
FoldNoAbs(a, b) == IF a + b > Grid THEN <<a - Grid, b - Grid>> ELSE <<a, b>>
\* random_lengths[random_test] -= 1.0; random_lengths = np.abs(random_lengths)
Fold(a, b) == IF a + b > Grid THEN <<Abs(a - Grid), Abs(b - Grid)>> ELSE <<a, b>>

\* What a call left behind when it raised.
Raised(what, tris, used) ==
    [ status |-> what, samples |-> <<>>, face_index |-> <<>>, lengths |-> <<>>,
      raw |-> <<>>, picks |-> <<>>, weights |-> <<>>, triangles_after |-> tris, used |-> used ]

\* sample_surface_core(mesh_triangles, area_faces, count, face_weight), the source
\* at `tape`.  triangles_after is the caller's mesh_triangles buffer on return,
\* used the number of draws taken.
SampleSurfaceCore(mesh_triangles, area_faces, count, face_weight, tape) ==
    LET weights == IF IsNone(face_weight) THEN area_faces ELSE Val(face_weight)
        weight_cum == CumSum(weights)
        n == Len(mesh_triangles)
    IN  IF count < 0 THEN Raised("ValueError", mesh_triangles, 0)
        ELSE IF Len(weight_cum) = 0 THEN Raised("IndexError", mesh_triangles, count)
        ELSE
        LET total == weight_cum[Len(weight_cum)]
            \* face_pick, as numerators over Grid
            face_pick == [i \in 1..count |-> Draw(tape, i - 1) * total]
            face_index == [i \in 1..count |-> SearchSorted(weight_cum, face_pick[i])]
            heap0 == [ mesh_triangles |-> mesh_triangles,
                       tri_vectors |-> [i \in 1..n |-> <<mesh_triangles[i][2],
                                                         mesh_triangles[i][3]>>] ]
            h == TriVectorsHandle
            tile == [i \in 1..n |-> <<heap0.mesh_triangles[i][1],
                                      heap0.mesh_triangles[i][1]>>]
            heap1 == SubInPlace(heap0, h, tile)
            all_vectors == ReadHandle(heap1, h)
        IN  IF \E i \in 1..count : face_index[i] >= n
            THEN Raised("IndexError", heap1.mesh_triangles, count)
            ELSE
            LET tri_origins == [i \in 1..count |-> heap1.mesh_triangles[face_index[i] + 1][1]]
                tri_vectors == [i \in 1..count |-> all_vectors[face_index[i] + 1]]
                raw == [i \in 1..count |->
                          << Draw(tape, count + LengthDraws * (i - 1)),
                             Draw(tape, count + LengthDraws * (i - 1) + 1) >>]
                random_lengths == [i \in 1..count |-> Fold(raw[i][1], raw[i][2])]
                sample_vector == [i \in 1..count |->
                                    VAdd(VScale(random_lengths[i][1], tri_vectors[i][1]),
                                         VScale(random_lengths[i][2], tri_vectors[i][2]))]
                samples == [i \in 1..count |->
                              VAdd(sample_vector[i], VScale(Grid, tri_origins[i]))]
            IN  [ status |-> "ok", samples |-> samples, face_index |-> face_index,
                  lengths |-> random_lengths, raw |-> raw, picks |-> face_pick, weights |-> weights,
                  triangles_after |-> heap1.mesh_triangles,
                  used |-> count + LengthDraws * count ]

\* ------------------------------------------------------------ the calls
NoCall ==
    [ op |-> "none", status |-> "none", count |-> 0, points |-> <<>>,
      face_index |-> <<>>, lengths |-> <<>>, raw |-> <<>>, picks |-> <<>>,
      weights |-> <<>>, face_weight |-> None, cand_points |-> <<>>, cand_index |-> <<>>, mask |-> <<>>,
      warned |-> FALSE, filter_calls |-> 0, contains_calls |-> 0,
      radius |-> "unset", transform |-> None ]

WeightVectors(n) == [1..n -> (-1)..MaxWeight]

\* A caller calls sample_surface_core on a triangle mesh's arrays.
CallSampleSurfaceCore ==
    /\ phase = "idle"
    /\ mesh.shape1 = 3
    /\ \E count \in (-1)..MaxCount :
       \E face_weight \in {None} \cup {Some(w) : w \in WeightVectors(Len(mesh.triangles))} :
       \E r \in {SampleSurfaceCore(mesh.triangles, mesh.area_faces, count,
                                  face_weight, rng)} :
              /\ ret' = [NoCall EXCEPT !.op = "sample_surface_core",
                                       !.status = r.status, !.count = count,
                                       !.points = r.samples,
                                       !.face_index = r.face_index,
                                       !.lengths = r.lengths, !.raw = r.raw,
                                       !.picks = r.picks,
                                       !.weights = r.weights,
                                       !.face_weight = face_weight]
              /\ mesh' = [mesh EXCEPT !.triangles = r.triangles_after]
              /\ rng' = Advance(rng, r.used)
    /\ phase' = "returned"
    /\ UNCHANGED <<box, inputs0, cameraVars>>

\* ---------------------------------------------------- sample_surface_even
RECURSIVE KeptUpTo(_, _)
\* The positions 1..i whose mask entry is True, ascending.
KeptUpTo(mask, i) ==
    IF i = 0 THEN <<>>
    ELSE IF mask[i] THEN Append(KeptUpTo(mask, i - 1), i) ELSE KeptUpTo(mask, i - 1)

\* a[mask]: the entries of a whose mask entry is True, in order.
Select(a, mask) ==
    LET kept == KeptUpTo(mask, Len(mask))
    IN  [i \in 1..Len(kept) |-> a[kept[i]]]

\* a[:count], count >= 0.
Take(a, count) == SubSeq(a, 1, Min(count, Len(a)))

\* np.concatenate((x.reshape(n, 1, ..), y.reshape(n, 1, ..)), axis=1).reshape(2n, ..):
\* x[0], y[0], x[1], y[1], ...
Interleave(x, y) ==
    [i \in 1..(Len(x) + Len(y)) |-> IF i % 2 = 1 THEN x[(i + 1) \div 2] ELSE y[i \div 2]]

\* points.remove_close(points, radius): the kept points and the mask of the kept
\* candidates.  Which candidates it keeps is the filter's choice, `keep`.
RemoveClose(points, radius, keep) == [points |-> Select(points, keep), mask |-> keep]

\* The return without the [:count] slices.
EvenReturnNoTruncate(points, index, mask, count) ==
    [ points |-> points, face_index |-> Select(index, mask),
      warned |-> Len(points) < count ]
\* The return with index in place of index[mask].
EvenReturnUnmaskedIndex(points, index, mask, count) ==
    IF Len(points) >= count
    THEN [ points |-> Take(points, count), face_index |-> Take(index, count),
           warned |-> FALSE ]
    ELSE [ points |-> points, face_index |-> Take(index, Len(points)), warned |-> TRUE ]
\* The return of sample_surface_even: the first count kept points, or all of them and a warning.
EvenReturn(points, index, mask, count) ==
    IF Len(points) >= count
    THEN [ points |-> Take(points, count),
           face_index |-> Take(Select(index, mask), count), warned |-> FALSE ]
    ELSE [ points |-> points, face_index |-> Select(index, mask), warned |-> TRUE ]

\* radius = np.sqrt(mesh.area / (mesh.faces.shape[1] * count)) when radius is None.
\* The value is not used by the model beyond whether it is defined: with count = 0
\* the division is by zero.
DefaultRadius(count) == IF count = 0 THEN "undefined" ELSE "default"

\* The oversampling of sample_surface_even: the candidates (points, index), the caller's triangles buffer
\* afterwards and the draws taken; status is that of the failing call if one raised.
EvenCandidates(m, count, tape) ==
    IF m.shape1 = 3
    THEN LET r == SampleSurfaceCore(m.triangles, m.area_faces,
                                    count * OversampleTri, None, tape)
         IN [ status |-> r.status, points |-> r.samples, index |-> r.face_index,
              triangles_after |-> r.triangles_after, used |-> r.used ]
    ELSE LET triangles_0 == TakeVertices(m.triangles, <<1, 2, 3>>)
             triangles_1 == TakeVertices(m.triangles, <<1, 3, 4>>)
             areas_0 == TrianglesArea(triangles_0)
             areas_1 == TrianglesArea(triangles_1)
             r0 == SampleSurfaceCore(triangles_0, areas_0,
                                     count * OversampleQuad, None, tape)
             r1 == SampleSurfaceCore(triangles_1, areas_1,
                                     count * OversampleQuad, None,
                                     Advance(tape, r0.used))
         IN IF r0.status # "ok"
            THEN [ status |-> r0.status, points |-> <<>>, index |-> <<>>,
                   triangles_after |-> m.triangles, used |-> r0.used ]
            ELSE IF r1.status # "ok"
            THEN [ status |-> r1.status, points |-> <<>>, index |-> <<>>,
                   triangles_after |-> m.triangles, used |-> r0.used + r1.used ]
            ELSE [ status |-> "ok",
                   points |-> Interleave(r0.samples, r1.samples),
                   index |-> Interleave(r0.face_index, r1.face_index),
                   triangles_after |-> m.triangles, used |-> r0.used + r1.used ]

\* Number of candidates sample_surface_even draws for count.
Oversampled(m, count) ==
    IF m.shape1 = 3 THEN count * OversampleTri ELSE 2 * count * OversampleQuad

\* A caller calls sample_surface_even(mesh, count, radius).  zero_div says what the
\* division by zero of the default radius does at count = 0: raise (mesh.area a
\* Python float) or give inf/nan (mesh.area a NumPy scalar).
CallSampleSurfaceEven ==
    /\ phase = "idle"
    /\ \E count \in 0..MaxCount :
       \E radius \in {None, Some(1)} :
       \E zero_div \in IF count = 0 /\ IsNone(radius) THEN BOOLEAN ELSE {FALSE} :
       \E c \in {EvenCandidates(mesh, count, rng)} :
          LET rad == IF IsNone(radius) THEN DefaultRadius(count) ELSE "given"
          IN  IF zero_div
              THEN /\ ret' = [NoCall EXCEPT !.op = "sample_surface_even",
                                            !.status = "ZeroDivisionError",
                                            !.count = count, !.radius = rad]
                   /\ UNCHANGED <<mesh, rng>>
              ELSE IF c.status # "ok"
              THEN /\ ret' = [NoCall EXCEPT !.op = "sample_surface_even",
                                            !.status = c.status,
                                            !.count = count, !.radius = rad]
                   /\ mesh' = [mesh EXCEPT !.triangles = c.triangles_after]
                   /\ rng' = Advance(rng, c.used)
              ELSE \E keep \in [1..Len(c.points) -> BOOLEAN] :
                   \E f \in {RemoveClose(c.points, rad, keep)} :
                   \E r \in {EvenReturn(f.points, c.index, f.mask, count)} :
                       /\ ret' = [NoCall EXCEPT !.op = "sample_surface_even",
                                                !.status = "ok", !.count = count,
                                                !.radius = rad,
                                                !.points = r.points,
                                                !.face_index = r.face_index,
                                                !.warned = r.warned,
                                                !.cand_points = c.points,
                                                !.cand_index = c.index,
                                                !.mask = f.mask,
                                                !.filter_calls = 1]
                       /\ mesh' = [mesh EXCEPT !.triangles = c.triangles_after]
                       /\ rng' = Advance(rng, c.used)
    /\ phase' = "returned"
    /\ UNCHANGED <<box, inputs0, cameraVars>>

\* ------------------------------------------------------------ volume_mesh
\* (np.random.random((count, 3)) * extents) + bounds[0], as Grid times the point.
BoxCandidates(extents, bounds0, count, tape) ==
    [i \in 1..count |->
        [k \in 1..3 |-> Draw(tape, AxisDraws * (i - 1) + (k - 1)) * extents[k]
                        + Grid * bounds0[k]]]

\* points[:count], without the containment mask.
VolumeSamplesAll(points, contained, count) == Take(points, count)
\* samples = points[contained][:count]
VolumeSamples(points, contained, count) == Take(Select(points, contained), count)

\* A caller calls volume_mesh(mesh, count) on a mesh with faces; inside is the set
\* of candidate points mesh.contains accepts.
CallVolumeMesh ==
    /\ phase = "idle"
    /\ Len(mesh.triangles) > 0
    /\ \E count \in 0..MaxCount :
       \E points \in {BoxCandidates(mesh.extents, mesh.bounds[1], count, rng)} :
              \E inside \in SUBSET {points[i] : i \in 1..count} :
              LET contained == [i \in 1..count |-> points[i] \in inside]
              IN  /\ ret' = [NoCall EXCEPT !.op = "volume_mesh", !.status = "ok",
                                           !.count = count,
                                           !.points = VolumeSamples(points, contained, count),
                                           !.cand_points = points,
                                           !.mask = contained,
                                           !.contains_calls = 1]
                  /\ rng' = Advance(rng, AxisDraws * count)
    /\ phase' = "returned"
    /\ UNCHANGED <<mesh, box, inputs0, cameraVars>>

\* ----------------------------------------------------- volume_rectangular
\* samples *= extents: the product in place, written to the buffer `target`.
MulInPlace(heap, target, extents) ==
    [heap EXCEPT ![target] =
        IF target = "samples"
        THEN [i \in 1..Len(@) |-> [k \in 1..3 |-> @[i][k] * extents[k]]]
        ELSE @]

\* transformations.transform_points(points, matrix): the 4x4 homogeneous matrix
\* applied to every point (rotation part, then translation), one row per point.
\* The points are 2*Grid times their coordinates, and so is the translation.
TransformPoints(points, matrix) ==
    [i \in 1..Len(points) |->
        [k \in 1..3 |-> matrix[k][1] * points[i][1] + matrix[k][2] * points[i][2]
                        + matrix[k][3] * points[i][3] + 2 * Grid * matrix[k][4]]]

\* volume_rectangular(extents, count, transform): samples and the caller's extents
\* on return.
VolumeRectangular(extents, count, transform, tape) ==
    LET heap0 == [ extents |-> extents,
                   samples |-> [i \in 1..count |->
                                  [k \in 1..3 |->
                                     2 * Draw(tape, AxisDraws * (i - 1) + (k - 1)) - Grid]] ]
        heap1 == MulInPlace(heap0, "samples", heap0.extents)
    IN  [ samples |-> IF IsNone(transform) THEN heap1.samples
                      ELSE TransformPoints(heap1.samples, Val(transform)),
          extents_after |-> heap1.extents ]

\* A caller calls volume_rectangular(extents, count) or
\* volume_rectangular(extents, count, transform) on its arrays.
CallVolumeRectangular ==
    /\ phase = "idle"
    /\ \E count \in 0..MaxCount :
       \E transform \in {None, Some(box.transform)} :
       \E r \in {VolumeRectangular(box.extents, count, transform, rng)} :
              /\ ret' = [NoCall EXCEPT !.op = "volume_rectangular", !.status = "ok",
                                       !.count = count, !.points = r.samples,
                                       !.transform = transform]
              /\ box' = [box EXCEPT !.extents = r.extents_after]
              /\ rng' = Advance(rng, AxisDraws * count)
    /\ phase' = "returned"
    /\ UNCHANGED <<mesh, inputs0, cameraVars>>

\* --------------------------------------------------- sample_surface_sphere
\* util.spherical_to_vector(np.column_stack((theta, phi))): one unit vector per
\* row, kept as the pair of draws (u, v) its angles 2*pi*u, arccos(2v - 1) come from.
SphericalToVector(angles) == [i \in 1..Len(angles) |-> <<"unit", angles[i][1], angles[i][2]>>]

\* sample_surface_sphere(count): u, v = np.random.random((2, count)).
SampleSurfaceSphere(count, tape) ==
    LET u == [i \in 1..count |-> Draw(tape, i - 1)]
        v == [i \in 1..count |-> Draw(tape, count + i - 1)]
    IN  SphericalToVector([i \in 1..count |-> <<u[i], v[i]>>])

CallSampleSurfaceSphere ==
    /\ phase = "idle"
    /\ \E count \in 0..MaxCount :
          /\ ret' = [NoCall EXCEPT !.op = "sample_surface_sphere", !.status = "ok",
                                   !.count = count,
                                   !.points = SampleSurfaceSphere(count, rng)]
          /\ rng' = Advance(rng, 2 * count)
    /\ phase' = "returned"
    /\ UNCHANGED <<mesh, box, inputs0, cameraVars>>

\* The caller is done with the outcome.
Return ==
    /\ phase = "returned"
    /\ phase' = "idle"
    /\ ret' = NoCall
    /\ UNCHANGED <<mesh, box, rng, inputs0, cameraVars>>

\* ------------------------------------------------------------- Camera
\* A focal length is a pair of exact fractions <<n, d>> (pixels).  A field of view
\* is kept by the tangent of half of each angle, a pair of exact fractions
\* <<p, q>>: fov = 2 * degrees(arctan(p / q)).  With that, focal and fov are tied by
\* focal * 2 * tan(fov / 2) = resolution, and both conversions are exact.
RECURSIVE GCD(_, _)
GCD(a, b) == IF b = 0 THEN a ELSE GCD(b, a % b)
Reduce(n, d) == <<n \div GCD(n, d), d \div GCD(n, d)>>

\* self._resolution / (2.0 * np.tan(np.radians(self._fov / 2.0)))
FocalFromFov(resolution, fov) ==
    [k \in 1..2 |-> Reduce(resolution[k] * fov[k][2], 2 * fov[k][1])]
\* 2.0 * np.degrees(np.arctan((self._resolution / 2.0) / self._focal))
FovFromFocal(resolution, focal) ==
    [k \in 1..2 |-> Reduce(resolution[k] * focal[k][2], 2 * focal[k][1])]

\* focal.setter
SetFocal(c, values) ==
    IF IsNone(values)
    THEN [c EXCEPT !._focal = None]
    ELSE [c EXCEPT !._focal_computed = FALSE, !._focal = values, !._fov = None]

\* fov.setter
SetFov(c, values) ==
    IF IsNone(values)
    THEN [c EXCEPT !._fov = None]
    ELSE [c EXCEPT !._focal_computed = TRUE, !._fov = values, !._focal = None]

\* A resolution setter that leaves both cached values in place.
SetResolutionKeepsCache(c, values) == [c EXCEPT !._resolution = values]
\* resolution.setter
SetResolution(c, values) ==
    IF c._focal_computed
    THEN [c EXCEPT !._resolution = values, !._focal = None]
    ELSE [c EXCEPT !._resolution = values, !._fov = None]

\* focal (getter): the value read, and the camera afterwards.
GetFocal(c) ==
    IF IsNone(c._focal)
    THEN LET focal == FocalFromFov(c._resolution, Val(c._fov))
         IN  [value |-> focal, self |-> [c EXCEPT !._focal = Some(focal)]]
    ELSE [value |-> Val(c._focal), self |-> c]

\* fov (getter): the value read, and the camera afterwards.
GetFov(c) ==
    IF IsNone(c._fov)
    THEN LET fov == FovFromFocal(c._resolution, Val(c._focal))
         IN  [value |-> fov, self |-> [c EXCEPT !._fov = Some(fov)]]
    ELSE [value |-> Val(c._fov), self |-> c]

\* Camera(name, resolution, focal, fov) with a name and a resolution given and
\* at least one of focal, fov.
NewCamera(name, resolution, focal, fov) ==
    LET c0 == [ name |-> name, _focal_computed |-> FALSE, _focal |-> None,
                _fov |-> None, _resolution |-> <<0, 0>> ]
        c1 == SetFocal(c0, focal)
        c2 == SetFov(c1, fov)
    IN  SetResolution(c2, resolution)

\* Camera.copy(): the copy, and the camera afterwards (its getters ran).
CameraCopy(c) ==
    LET f == GetFocal(c)
        v == GetFov(f.self)
    IN  [ copy |-> NewCamera(c.name, c._resolution, Some(f.value), Some(v.value)),
          self |-> v.self ]

\* Largest multiplier of the values assigned to a camera.
MaxCam == 3
Resolutions == {<<4 * k, 2 * k>> : k \in 1..MaxCam}
Focals == {<< <<k, 1>>, <<2 * k, 1>> >> : k \in 1..MaxCam}
Fovs == {<< <<1, k>>, <<k, 1>> >> : k \in 1..MaxCam}

NoCamera == [name |-> "none"]
Assigned(which, value, resized) == [which |-> which, value |-> value, resized |-> resized]

\* camera.focal = values, on the camera and on its copy
AssignFocal ==
    /\ \E values \in Focals :
          /\ cam' = SetFocal(cam, Some(values))
          /\ cpy' = [i \in 1..Len(cpy) |-> SetFocal(cpy[i], Some(values))]
          /\ explicit' = Assigned("focal", values, FALSE)
    /\ UNCHANGED samplerVars

\* camera.fov = values, on the camera and on its copy
AssignFov ==
    /\ \E values \in Fovs :
          /\ cam' = SetFov(cam, Some(values))
          /\ cpy' = [i \in 1..Len(cpy) |-> SetFov(cpy[i], Some(values))]
          /\ explicit' = Assigned("fov", values, FALSE)
    /\ UNCHANGED samplerVars

\* camera.resolution = values, on the camera and on its copy
AssignResolution ==
    /\ \E values \in Resolutions :
          /\ cam' = SetResolution(cam, values)
          /\ cpy' = [i \in 1..Len(cpy) |-> SetResolution(cpy[i], values)]
    /\ explicit' = [explicit EXCEPT !.resized = TRUE]
    /\ UNCHANGED samplerVars

\* camera.focal is read, on the camera and on its copy
ReadFocal ==
    /\ cam' = GetFocal(cam).self
    /\ cpy' = [i \in 1..Len(cpy) |-> GetFocal(cpy[i]).self]
    /\ UNCHANGED <<explicit, samplerVars>>

\* camera.fov is read, on the camera and on its copy
ReadFov ==
    /\ cam' = GetFov(cam).self
    /\ cpy' = [i \in 1..Len(cpy) |-> GetFov(cpy[i]).self]
    /\ UNCHANGED <<explicit, samplerVars>>

\* copy = camera.copy()
TakeCopy ==
    /\ Len(cpy) = 0
    /\ cam' = CameraCopy(cam).self
    /\ cpy' = <<CameraCopy(cam).copy>>
    /\ UNCHANGED <<explicit, samplerVars>>

\* ------------------------------------------------------ specifications
\* The caller's box: sides 2, 4, 6, and a placement by a quarter turn about z
\* followed by the translation (1, 2, 3).
Placement == << <<0, -1, 0, 1>>, <<1, 0, 0, 2>>, <<0, 0, 1, 3>>, <<0, 0, 0, 1>> >>
Box == [extents |-> <<2, 4, 6>>, transform |-> Placement]

\* The samplers: a mesh, a box and a random-number source; any sequence of calls.
Init ==
    /\ mesh \in Meshes
    /\ box = Box
    /\ rng \in Tapes
    /\ phase = "idle"
    /\ ret = NoCall
    /\ inputs0 = [mesh |-> mesh, box |-> box]
    /\ cam = NoCamera
    /\ cpy = <<>>
    /\ explicit = <<>>

Next ==
    \/ CallSampleSurfaceCore
    \/ CallSampleSurfaceEven
    \/ CallVolumeMesh
    \/ CallVolumeRectangular
    \/ CallSampleSurfaceSphere
    \/ Return

Spec == Init /\ [][Next]_vars

\* The camera: built from a focal length, from a field of view, or from both (the
\* field of view then overrides); any sequence of assignments, reads and one copy.
InitCamera ==
    /\ mesh = TriMesh(0)
    /\ box = Box
    /\ rng = [i \in 1..2 |-> 0]
    /\ phase = "idle"
    /\ ret = NoCall
    /\ inputs0 = [mesh |-> mesh, box |-> box]
    /\ cpy = <<>>
    /\ \E resolution \in Resolutions :
          \/ \E focal \in Focals :
                /\ cam = NewCamera("camera", resolution, Some(focal), None)
                /\ explicit = Assigned("focal", focal, FALSE)
          \/ \E fov \in Fovs :
                /\ cam = NewCamera("camera", resolution, None, Some(fov))
                /\ explicit = Assigned("fov", fov, FALSE)
          \/ \E focal \in Focals : \E fov \in Fovs :
                /\ cam = NewCamera("camera", resolution, Some(focal), Some(fov))
                /\ explicit = Assigned("fov", fov, FALSE)

NextCamera ==
    \/ AssignFocal
    \/ AssignFov
    \/ AssignResolution
    \/ ReadFocal
    \/ ReadFov
    \/ TakeCopy

SpecCamera == InitCamera /\ [][NextCamera]_vars

\* ---------------------------------------------------------------- claims
\* The weights a sample_surface_core call used: face_weight, or area_faces.
WeightsOfCall ==
    IF IsNone(ret.face_weight) THEN inputs0.mesh.area_faces ELSE Val(ret.face_weight)

\* The input contract of sample_surface_core: a non-empty triangle set, weights
\* all >= 0 with a positive sum, count >= 0.
ValidCoreInput ==
    /\ Len(inputs0.mesh.triangles) > 0
    /\ \A i \in 1..Len(WeightsOfCall) : WeightsOfCall[i] >= 0
    /\ SumTo(WeightsOfCall, Len(WeightsOfCall)) > 0
    /\ ret.count >= 0

\* The positions of the candidates a mask keeps, as a set and in increasing order.
KeptSet(mask) == {j \in 1..Len(mask) : mask[j]}
KeptPositions(mask) ==
    LET Kept(j) == mask[j]
    IN  SelectSeq([j \in 1..Len(mask) |-> j], Kept)

\* out holds, in order, the candidates at the first n of the positions pos.
FirstKept(out, cand, pos, n) ==
    /\ Len(out) = n
    /\ \A i \in 1..n : out[i] = cand[pos[i]]

\* p (Grid times a point) is a convex combination of the vertices of tri.
InHull(p, tri) ==
    \E w1 \in 0..Grid : \E w2 \in 0..(Grid - w1) :
        p = VAdd(VAdd(VScale(Grid - w1 - w2, tri[1]), VScale(w1, tri[2])),
                 VScale(w2, tri[3]))

\* C1: on valid input sample_surface_core returns exactly count points and count
\* face indices, sample_surface_sphere and volume_rectangular return exactly count
\* points, and sample_surface_even and volume_mesh never return more than count
\* points, whatever the filter or the containment test keeps.
C1_ReturnedCount ==
    /\ (ret.op = "sample_surface_core" /\ ValidCoreInput) =>
           /\ ret.status = "ok"
           /\ Len(ret.points) = ret.count
           /\ Len(ret.face_index) = ret.count
    /\ ret.op \in {"sample_surface_sphere", "volume_rectangular"} =>
           /\ ret.status = "ok"
           /\ Len(ret.points) = ret.count
    /\ ret.op \in {"sample_surface_even", "volume_mesh"} =>
           /\ Len(ret.points) <= ret.count
           /\ Len(ret.face_index) <= ret.count

\* C1 witness: sample_surface_even returned count = MaxCount points although the
\* filter kept more candidates than that.
C1_Witness ==
    /\ ret.op = "sample_surface_even"
    /\ ret.status = "ok"
    /\ ret.count = MaxCount
    /\ Cardinality(KeptSet(ret.mask)) > ret.count
    /\ Len(ret.points) = ret.count

\* C2: sample_surface_core raises, and returns no points, on every violation of
\* its input contract (empty triangle set, all-zero weights, a negative weight, a
\* negative count).
C2_FailsFastOnInvalidInput ==
    (ret.op = "sample_surface_core" /\ ~ValidCoreInput) =>
        /\ ret.status # "ok"
        /\ ret.points = <<>>

\* C3: on valid weights every face index sample_surface_core returns is an index
\* of the triangle set and names a triangle of strictly positive weight, for
\* every draw p in [0, C[last]), p = 0 included.
C3_NeverPicksZeroWeight ==
    (ret.op = "sample_surface_core" /\ ValidCoreInput /\ ret.status = "ok") =>
        \A i \in 1..Len(ret.face_index) :
            /\ ret.face_index[i] \in 0..(Len(inputs0.mesh.triangles) - 1)
            /\ WeightsOfCall[ret.face_index[i] + 1] > 0

\* C4: in sample_surface_core the coefficients after the fold (subtract 1 from
\* both when a + b > 1, then take absolute values) are each in [0, 1] and sum to
\* at most 1, and the point returned is v0 + a'(v1 - v0) + b'(v2 - v0) for the
\* triangle its own face index names, so it lies inside that triangle.
C4_PointInsideReportedTriangle ==
    (ret.op = "sample_surface_core" /\ ret.status = "ok") =>
        \A i \in 1..Len(ret.points) :
            LET tri == inputs0.mesh.triangles[ret.face_index[i] + 1]
                a == ret.lengths[i][1]
                b == ret.lengths[i][2]
                folded == ret.raw[i][1] + ret.raw[i][2] > Grid
            IN  /\ a \in 0..Grid
                /\ b \in 0..Grid
                /\ a + b <= Grid
                /\ a = (IF folded THEN Grid - ret.raw[i][1] ELSE ret.raw[i][1])
                /\ b = (IF folded THEN Grid - ret.raw[i][2] ELSE ret.raw[i][2])
                /\ ret.points[i] = VAdd(VScale(Grid, tri[1]),
                                        VAdd(VScale(a, VSub(tri[2], tri[1])),
                                             VScale(b, VSub(tri[3], tri[1]))))
                /\ InHull(ret.points[i], tri)

\* C4 witness: a point was returned whose two draws summed to more than 1, from a
\* triangle other than the first.
C4_Witness ==
    /\ ret.op = "sample_surface_core"
    /\ ret.status = "ok"
    /\ \E i \in 1..Len(ret.points) :
          /\ ret.raw[i][1] + ret.raw[i][2] > Grid
          /\ ret.face_index[i] > 0

\* The triangles a face of the mesh is sampled through: the face itself, or the
\* two halves (0, 1, 2) and (0, 2, 3) of a quad.
FaceTriangles(face) ==
    IF Len(face) = 3 THEN {face}
    ELSE {<<face[1], face[2], face[3]>>, <<face[1], face[3], face[4]>>}

\* C5: sample_surface_even (triangle and quad path) returns the first count
\* candidates the filter kept, in draw order, when at least count were kept, and
\* otherwise all kept candidates with a shortfall warning; the i-th face index
\* returned is the index of the face the i-th point returned was drawn from.
C5_FirstCountKeptInDrawOrder ==
    (ret.op = "sample_surface_even" /\ ret.status = "ok") =>
        \A pos \in {KeptPositions(ret.mask)} :
        \A kept \in {Len(pos)} :
        \A n \in {IF kept >= ret.count THEN ret.count ELSE kept} :
            /\ Len(ret.cand_points) = Oversampled(inputs0.mesh, ret.count)
            /\ Len(ret.cand_index) = Len(ret.cand_points)
            /\ Len(ret.mask) = Len(ret.cand_points)
            /\ \A i \in 1..Len(ret.face_index) :
                   /\ ret.face_index[i] \in 0..(Len(inputs0.mesh.triangles) - 1)
                   /\ \E tri \in FaceTriangles(
                                  inputs0.mesh.triangles[ret.face_index[i] + 1]) :
                          InHull(ret.points[i], tri)
            /\ FirstKept(ret.points, ret.cand_points, pos, n)
            /\ FirstKept(ret.face_index, ret.cand_index, pos, n)
            /\ ret.warned = (kept < ret.count)

\* C5 witness: on the quad path the filter rejected the first candidate and kept
\* more than count of the others, drawn from different faces.
C5_Witness ==
    /\ ret.op = "sample_surface_even"
    /\ ret.status = "ok"
    /\ inputs0.mesh.shape1 = 4
    /\ ret.count = MaxCount
    /\ ~ret.mask[1]
    /\ Cardinality(KeptSet(ret.mask)) > ret.count
    /\ ret.face_index[1] # ret.cand_index[1]
    /\ ~ret.warned

\* C6: sample_surface_even with count = 0 returns an empty point set and an empty
\* face-index vector without invoking the minimum-spacing filter, without an error
\* and without an undefined default radius.
C6_ZeroCountSkipsFilter ==
    (ret.op = "sample_surface_even" /\ ret.count = 0
        /\ Len(inputs0.mesh.triangles) > 0) =>
        /\ ret.status = "ok"
        /\ ret.points = <<>>
        /\ ret.face_index = <<>>
        /\ ret.filter_calls = 0
        /\ ret.radius # "undefined"

\* C7: volume_mesh draws count candidates inside the box [bounds_min, bounds_min +
\* extents], evaluates the containment test once on them and returns exactly the
\* accepted candidates in draw order: all of them when everything is accepted,
\* none when everything is rejected, never a rejected point or one outside the box.
C7_AcceptedCandidatesInDrawOrder ==
    ret.op = "volume_mesh" =>
        LET pos == KeptPositions(ret.mask)
            low == inputs0.mesh.bounds[1]
            ext == inputs0.mesh.extents
        IN  /\ ret.status = "ok"
            /\ ret.contains_calls = 1
            /\ Len(ret.cand_points) = ret.count
            /\ Len(ret.mask) = ret.count
            /\ \A j \in 1..ret.count : \A k \in 1..3 :
                   /\ ret.cand_points[j][k] >= Grid * low[k]
                   /\ ret.cand_points[j][k] <= Grid * (low[k] + ext[k])
            /\ FirstKept(ret.points, ret.cand_points, pos, Len(pos))
            /\ (\A j \in 1..ret.count : ret.mask[j]) => ret.points = ret.cand_points
            /\ (\A j \in 1..ret.count : ~ret.mask[j]) => ret.points = <<>>

\* C7 witness: the containment test rejected the first candidate and accepted the
\* second.
C7_Witness ==
    /\ ret.op = "volume_mesh"
    /\ ret.count = MaxCount
    /\ ~ret.mask[1]
    /\ ret.mask[2]
    /\ ret.points[1] = ret.cand_points[2]

\* C8: no sampler changes its inputs or keeps state: after any sequence of calls
\* the caller's triangles, areas, bounds, extents, box sides and transform hold
\* the values they had before the calls.
C8_InputsUnchanged ==
    /\ mesh = inputs0.mesh
    /\ box = inputs0.box

\* C8 witness: sample_surface_core returned points, so its in-place subtraction
\* of the origins from the edge vectors ran.
C8_Witness ==
    /\ ret.op = "sample_surface_core"
    /\ ret.status = "ok"
    /\ ret.count = MaxCount
    /\ phase = "returned"

\* focal * 2 * tan(fov / 2) = resolution, component by component.
Tied(focal, fov, resolution) ==
    \A k \in 1..2 :
        focal[k][1] * 2 * fov[k][1] = resolution[k] * focal[k][2] * fov[k][2]

\* C9: after any sequence of assignments to focal, fov and resolution and of
\* reads, whichever of focal and fov was assigned last reads back as assigned,
\* and the other reads as the value derived from it and the present resolution;
\* a change of resolution never changes the assigned one.
C9_LastAssignedWins ==
    cam.name # "none" =>
        /\ explicit.which = "focal" => GetFocal(cam).value = explicit.value
        /\ explicit.which = "fov" => GetFov(cam).value = explicit.value
        /\ Tied(GetFocal(cam).value, GetFov(cam).value, cam._resolution)

\* C9 witness: the focal length was assigned, the resolution was assigned after
\* it, and the field of view has been read since.
C9_Witness ==
    /\ cam.name # "none"
    /\ explicit.which = "focal"
    /\ explicit.resized
    /\ ~IsNone(cam._fov)

\* C10: a copy behaves as the original: same name, resolution, focal and fov,
\* also after the same assignments were made to both.
C10_CopyReadsAsOriginal ==
    Len(cpy) = 1 =>
        /\ cpy[1].name = cam.name
        /\ cpy[1]._resolution = cam._resolution
        /\ GetFocal(cpy[1]).value = GetFocal(cam).value
        /\ GetFov(cpy[1]).value = GetFov(cam).value
====
